---- MODULE Spec2Model ----
(***************************************************************************)
(* A model of rateslib/curves.py: the Curve / LineCurve objects, their     *)
(* evaluation (index_left, interpolate, __getitem__, rate), the            *)
(* differentiation-order mutator _set_ad_order, csolve, and the            *)
(* transformations shift, translate and roll.                               *)
(*                                                                         *)
(* Dates are integers counting ticks; DayTicks ticks make one calendar day, *)
(* so that a datetime carries a time of day.  Numbers are exact: a rational *)
(* <<"q", n, d>> or a symbolic term <<op, args>> for what is not rational   *)
(* (log, exp, fractional powers, spline values, day count fractions).       *)
(***************************************************************************)
EXTENDS Integers, Sequences, FiniteSets, TLC

\* ----------------------------------------------------------------- bounds
MaxDate == 4
MaxNodes == 3
DayTicks == 2
MaxKeys == 6
MaxTagged == 11

\* ------------------------------------------------------ exact numbers
Abs(i) == IF i < 0 THEN 0 - i ELSE i

RECURSIVE GCD(_, _)
GCD(a, b) == IF b = 0 THEN a ELSE GCD(b, a % b)

RECURSIVE IPow(_, _)
IPow(b, e) == IF e = 0 THEN 1 ELSE b * IPow(b, e - 1)

Q(n, d) ==
    LET s == IF d < 0 THEN 0 - 1 ELSE 1
        g == GCD(Abs(n), Abs(d))
    IN  <<"q", (s * n) \div g, (s * d) \div g>>

Q0 == Q(0, 1)
Q1 == Q(1, 1)
IsQ(x) == x[1] = "q"
IsZero(x) == IsQ(x) /\ x[2] = 0
IsOne(x) == IsQ(x) /\ x[2] = 1 /\ x[3] = 1

\* TLC's integers are 32 bits wide: a rational whose numerator or denominator
\* would not fit stays a symbolic term
Big == IPow(2, 30)
Fits(a, b) == a = 0 \/ b = 0 \/ Abs(a) <= Big \div Abs(b)

TAdd(x, y) ==
    IF IsQ(x) /\ IsQ(y)
    THEN LET g == GCD(x[3], y[3])
             a == y[3] \div g
             b == x[3] \div g
         IN  IF Fits(x[2], 2 * a) /\ Fits(y[2], 2 * b) /\ Fits(x[3], a)
             THEN Q(x[2] * a + y[2] * b, x[3] * a)
             ELSE <<"add", x, y>>
    ELSE IF IsZero(x) THEN y
    ELSE IF IsZero(y) THEN x
    ELSE IF y[1] = "sub" /\ y[3] = x THEN y[2]
    ELSE <<"add", x, y>>

TNeg(x) == IF IsQ(x) THEN <<"q", 0 - x[2], x[3]>> ELSE <<"neg", x>>

TSub(x, y) ==
    IF IsQ(x) /\ IsQ(y) THEN TAdd(x, TNeg(y))
    ELSE IF IsZero(y) THEN x
    ELSE IF x = y THEN Q0
    ELSE <<"sub", x, y>>

\* the product of two rationals, a symbolic term when it would not fit
QMul(x, y) ==
    LET g1 == GCD(Abs(x[2]), y[3])
        g2 == GCD(Abs(y[2]), x[3])
        n1 == x[2] \div g1
        n2 == y[2] \div g2
        d1 == x[3] \div g2
        d2 == y[3] \div g1
    IN  IF Fits(n1, n2) /\ Fits(d1, d2) THEN <<"q", n1 * n2, d1 * d2>>
        ELSE <<"mul", x, y>>

TMul(x, y) ==
    IF IsZero(x) \/ IsZero(y) THEN Q0
    ELSE IF IsOne(x) THEN y
    ELSE IF IsOne(y) THEN x
    ELSE IF IsQ(x) /\ IsQ(y) THEN QMul(x, y)
    ELSE IF y[1] = "div" /\ y[3] = x THEN y[2]
    ELSE IF IsQ(x) /\ y[1] = "mul" /\ IsQ(y[3]) /\ IsOne(QMul(x, y[3])) THEN y[2]
    ELSE <<"mul", x, y>>

\* x / y for y that is not zero (the callers test IsZero(y) first)
TDiv(x, y) ==
    IF IsZero(x) THEN Q0
    ELSE IF IsOne(y) THEN x
    ELSE IF IsQ(y) THEN TMul(x, Q(y[3], y[2]))
    ELSE IF x = y THEN Q1
    ELSE <<"div", x, y>>

RECURSIVE QPow(_, _)
QPow(x, e) == IF e = 0 THEN Q1 ELSE TMul(x, QPow(x, e - 1))

\* x ** e for a rational exponent e = <<"q", n, d>>; x is not zero when n < 0
TPow(x, e) ==
    IF e[2] = 0 THEN Q1
    ELSE IF IsOne(e) THEN x
    ELSE IF IsOne(x) THEN Q1
    ELSE IF IsZero(x) /\ e[2] > 0 THEN Q0
    ELSE IF IsQ(x) /\ e[3] = 1
              /\ IsQ(QPow(IF e[2] > 0 THEN x ELSE Q(x[3], x[2]), Abs(e[2])))
         THEN QPow(IF e[2] > 0 THEN x ELSE Q(x[3], x[2]), Abs(e[2]))
    ELSE IF x[1] = "pow"
         THEN LET f == Q(x[3][2] * e[2], x[3][3] * e[3])
              IN  IF IsOne(f) THEN x[2] ELSE <<"pow", x[2], f>>
    ELSE <<"pow", x, e>>

\* the sign of a number: -1, 0, 1
RECURSIVE TSign(_)
TSign(x) ==
    IF IsQ(x) THEN (IF x[2] > 0 THEN 1 ELSE IF x[2] < 0 THEN 0 - 1 ELSE 0)
    ELSE IF x[1] \in {"exp", "pow"} THEN 1
    ELSE IF x[1] \in {"mul", "div"} THEN TSign(x[2]) * TSign(x[3])
    ELSE IF x[1] = "neg" THEN 0 - TSign(x[2])
    ELSE IF x[1] = "add" /\ TSign(x[2]) = TSign(x[3]) THEN TSign(x[2])
    ELSE 1

dual_log(x) ==
    IF IsOne(x) THEN Q0
    ELSE IF x[1] = "exp" THEN x[2]
    ELSE <<"log", x>>

dual_exp(x) ==
    IF IsZero(x) THEN Q1
    ELSE IF x[1] = "log" THEN x[2]
    ELSE <<"exp", x>>

\* ---------------------------------------------------------- index_left
Failed == 0 - 1

\* a faulty index_left that never bisects
index_left_unsplit(list_input, list_length, value, left_count) ==
    IF list_length = 1 THEN Failed ELSE left_count

RECURSIVE index_left(_, _, _, _)
index_left(list_input, list_length, value, left_count) ==
    IF list_length = 1 THEN Failed
    ELSE IF list_length = 2 THEN left_count
    ELSE LET split == (list_length - 1) \div 2
         IN  IF list_length = 3 /\ value = list_input[split + 1]
             THEN left_count
             ELSE IF value <= list_input[split + 1]
             THEN index_left(SubSeq(list_input, 1, split + 1), split + 1,
                             value, left_count)
             ELSE index_left(SubSeq(list_input, split + 1, list_length),
                             list_length - split, value, left_count + split)

\* ------------------------------------------------------------ the state
\* cv:   the curve the operations are called on (a Curve or a LineCurve)
\* out:  the last call: its name, arguments, outcome and result
\* heap: the mutable containers (node dicts, knot lists) by reference
\* il:   the arguments and the result of a direct call of index_left
VARIABLES cv, out, heap, il
vars == <<cv, out, heap, il>>

NoRef == "None"
Slots == {"a.nodes", "a.t", "a.spline.t", "b.nodes", "b.t", "b.spline.t",
          "c.nodes", "c.t", "c.spline.t"}
Own(obj, field) == obj \o "." \o field

Node(k, re, ord, tag) == [k |-> k, re |-> re, ord |-> ord, tag |-> tag]
Keys(d) == [i \in 1..Len(d) |-> d[i].k]
DictGet(d, k) == d[CHOOSE i \in 1..Len(d) : d[i].k = k]

\* str.upper() on the convention names in use
Upper(convention) ==
    IF convention \in {"Act360", "act360", "ACT360"} THEN "ACT360"
    ELSE IF convention \in {"Act365F", "act365f", "ACT365F"} THEN "ACT365F"
    ELSE convention

\* an evaluation's outcome: st is "ok" or the exception raised
Ok(v) == [st |-> "ok", none |-> FALSE, v |-> v]
None == [st |-> "ok", none |-> TRUE, v |-> Q0]
Raise(e) == [st |-> e, none |-> FALSE, v |-> Q0]

\* ----------------------------------------------------------- interpolate
Years(ticks) == Q(ticks, 365 * DayTicks)

\* a faulty line that continues flat beyond the right end of its bracket
interpolate_linear_capped(x, x_1, y_1, x_2, y_2) ==
    IF x > x_2 THEN y_2
    ELSE TAdd(y_1, TMul(TSub(y_2, y_1), Q(x - x_1, x_2 - x_1)))

interpolate_linear(x, x_1, y_1, x_2, y_2) ==
    TAdd(y_1, TMul(TSub(y_2, y_1), Q(x - x_1, x_2 - x_1)))

\* a faulty interpolate that answers every rule with the left value
interpolate_left(x, x_1, y_1, x_2, y_2, interpolation, start) == Ok(y_1)

interpolate(x, x_1, y_1, x_2, y_2, interpolation, start) ==
    IF interpolation = "linear"
    THEN Ok(interpolate_linear(x, x_1, y_1, x_2, y_2))
    ELSE IF interpolation = "log_linear"
    THEN IF TSign(y_1) < 1 \/ TSign(y_2) < 1 THEN Raise("ValueError")
         ELSE Ok(dual_exp(interpolate_linear(x, x_1, dual_log(y_1),
                                             x_2, dual_log(y_2))))
    ELSE IF interpolation = "linear_zero_rate"
    THEN IF TSign(y_2) < 1 THEN Raise("ValueError")
         ELSE LET z_2 == TDiv(dual_log(y_2), Years(start - x_2))
              IN  IF start = x_1
                  THEN Ok(dual_exp(TMul(Years(start - x),
                              interpolate_linear(x, x_1, z_2, x_2, z_2))))
                  ELSE IF TSign(y_1) < 1 THEN Raise("ValueError")
                  ELSE LET z_1 == TDiv(dual_log(y_1), Years(start - x_1))
                       IN  Ok(dual_exp(TMul(Years(start - x),
                              interpolate_linear(x, x_1, z_1, x_2, z_2))))
    ELSE IF interpolation = "flat_forward"
    THEN (IF x = x_2 THEN Ok(y_2) ELSE Ok(y_1))
    ELSE (IF x = x_1 THEN Ok(y_1) ELSE Ok(y_2))

\* ------------------------------------------------- Curve.__getitem__, rate
\* PPSpline.ppev_single: the spline's value at a date, from its coefficients
ppev_single(spline, knots, date) ==
    IF spline.c[1] = "none" THEN Raise("TypeError")
    ELSE Ok(<<"ppev", spline.c, knots, date>>)

op_exp(kind, x) == IF kind = "Curve" THEN dual_exp(x) ELSE x
op_log(kind, x) == IF kind = "Curve" THEN dual_log(x) ELSE x

\* a faulty _local_interp_ without the test for dates before the first node
local_interp_unguarded(h, c, date) ==
    LET l_index == index_left(c.node_dates, c.n, date, 0)
    IN  IF l_index = Failed THEN Raise("ValueError")
        ELSE LET node_left == c.node_dates[l_index + 1]
                 node_right == c.node_dates[l_index + 2]
             IN  interpolate(date,
                             node_left,
                             DictGet(h[c.nodes], node_left).re,
                             node_right,
                             DictGet(h[c.nodes], node_right).re,
                             c.interpolation,
                             c.node_dates[1])

local_interp(h, c, date) ==
    IF date < c.node_dates[1] THEN Ok(Q0)
    ELSE LET l_index == index_left(c.node_dates, c.n, date, 0)
         IN  IF l_index = Failed THEN Raise("ValueError")
             ELSE LET node_left == c.node_dates[l_index + 1]
                      node_right == c.node_dates[l_index + 2]
                  IN  interpolate(date,
                                  node_left,
                                  DictGet(h[c.nodes], node_left).re,
                                  node_right,
                                  DictGet(h[c.nodes], node_right).re,
                                  c.interpolation,
                                  c.node_dates[1])

\* the user callables in use: the constant functions lambda date, nodes: v
IsCallable(interpolation) ==
    interpolation \in {"<lambda: 0.0>", "<lambda: 0.5>"}
Call(interpolation, date, nodes) ==
    IF interpolation = "<lambda: 0.0>" THEN Q0 ELSE Q(1, 2)

\* a faulty __getitem__ that hands the first knot itself to the spline
getitem_before_knot(h, c, date) ==
    IF c.spline.nil \/ date < h[c.t][1]
    THEN IF IsCallable(c.interpolation)
         THEN Ok(Call(c.interpolation, date, h[c.nodes]))
         ELSE local_interp(h, c, date)
    ELSE LET s == ppev_single(c.spline, h[c.spline.t], date)
         IN  IF s.st # "ok" THEN s ELSE Ok(op_exp(c.kind, s.v))

getitem(h, c, date) ==
    IF c.spline.nil \/ date <= h[c.t][1]
    THEN IF IsCallable(c.interpolation)
         THEN Ok(Call(c.interpolation, date, h[c.nodes]))
         ELSE local_interp(h, c, date)
    ELSE LET s == ppev_single(c.spline, h[c.spline.t], date)
         IN  IF s.st # "ok" THEN s ELSE Ok(op_exp(c.kind, s.v))

\* calendars.dcf: the day count fraction between two dates
dcf(effective, termination, convention) ==
    IF Upper(convention) = "ACT360" THEN Q(termination - effective, 360 * DayTicks)
    ELSE Q(termination - effective, 365 * DayTicks)

\* a faulty rate that lets the division by zero escape
rate_uncaught(h, c, effective, termination) ==
    IF c.kind = "LineCurve" THEN getitem(h, c, effective)
    ELSE LET e == getitem(h, c, effective)
             t == getitem(h, c, termination)
         IN  IF e.st # "ok" THEN e
             ELSE IF t.st # "ok" THEN t
             ELSE IF IsZero(t.v) THEN Raise("ZeroDivisionError")
             ELSE LET df_ratio == TDiv(e.v, t.v)
                      d == dcf(effective, termination, c.convention)
                  IN  IF IsZero(d) THEN Raise("ZeroDivisionError")
                      ELSE Ok(TMul(TDiv(TSub(df_ratio, Q1), d), Q(100, 1)))

\* Curve.rate (termination a date) and LineCurve.rate
rate(h, c, effective, termination) ==
    IF c.kind = "LineCurve" THEN getitem(h, c, effective)
    ELSE LET e == getitem(h, c, effective)
             t == getitem(h, c, termination)
         IN  IF e.st = "ZeroDivisionError" THEN None
             ELSE IF e.st # "ok" THEN e
             ELSE IF t.st = "ZeroDivisionError" THEN None
             ELSE IF t.st # "ok" THEN t
             ELSE IF IsZero(t.v) THEN None
             ELSE LET df_ratio == TDiv(e.v, t.v)
                      d == dcf(effective, termination, c.convention)
                  IN  IF IsZero(d) THEN Raise("ZeroDivisionError")
                      ELSE Ok(TMul(TDiv(TSub(df_ratio, Q1), d), Q(100, 1)))

\* ------------------------------------------ PPSpline, csolve, _set_ad_order
NoAd == 0 - 1
NoSpline == [nil |-> TRUE, t |-> NoRef, n |-> 0, c |-> <<"none">>]

\* a faulty PPSpline that works on the list of knots it is handed
PPSpline_shared(h, obj, k, t, c) ==
    [h |-> h,
     spline |-> [nil |-> FALSE, t |-> t, n |-> Len(h[t]) - k, c |-> c]]

\* PPSpline(k, t, c): the spline keeps its own working copy of the knots
PPSpline(h, obj, k, t, c) ==
    [h |-> [h EXCEPT ![Own(obj, "spline.t")] = h[t]],
     spline |-> [nil |-> FALSE, t |-> Own(obj, "spline.t"),
                 n |-> Len(h[t]) - k, c |-> c]]

\* list.pop(i) for a 0-based index i >= 0, and for i = -j from the end
Pop(l, i) ==
    LET p == IF i >= 0 THEN i + 1 ELSE Len(l) + i + 1
    IN  SubSeq(l, 1, p - 1) \o SubSeq(l, p + 1, Len(l))

Thrown(e, h, c) == [st |-> e, h |-> h, c |-> c]
Done(h, c) == [st |-> "ok", h |-> h, c |-> c]

\* csolve past its early return: a new PPSpline, then its coefficients
csolve_spline(h, c) ==
    LET p == PPSpline(h, c.obj, 4, c.t, <<"none">>)
        h1 == p.h
        c1 == [c EXCEPT !.spline = p.spline]
        t == h1[c.t]
        inside == SelectSeq(h1[c.nodes], LAMBDA nd : nd.k >= t[1])
        tau == Keys(inside)
        bad == \E i \in 1..Len(inside) :
                   c.kind = "Curve" /\ TSign(inside[i].re) < 1
        y == [i \in 1..Len(inside) |-> op_log(c.kind, inside[i].re)]
        \* the order and variable of each value the spline is solved from
        duals == [i \in 1..Len(inside) |-> <<inside[i].ord, inside[i].tag>>]
        left == c.spline_endpoints[1]
        right == c.spline_endpoints[2]
        \* left side constraint
        tauL == IF left = "natural" THEN <<t[1]>> \o tau ELSE tau
        yL == IF left = "natural" THEN <<Q0>> \o y ELSE y
        left_n == IF left = "natural" THEN 2 ELSE 0
        h2 == IF left = "not_a_knot"
              THEN [h1 EXCEPT ![p.spline.t] = Pop(h1[p.spline.t], 4)]
              ELSE h1
        c2 == IF left = "not_a_knot"
              THEN [c1 EXCEPT !.spline.n = c1.spline.n - 1]
              ELSE c1
        \* right side constraint
        tR == h2[c.t]
        tauR == IF right = "natural" THEN tauL \o <<tR[Len(tR)]>> ELSE tauL
        yR == IF right = "natural" THEN yL \o <<Q0>> ELSE yL
        right_n == IF right = "natural" THEN 2 ELSE 0
        h3 == IF right = "not_a_knot"
              THEN [h2 EXCEPT ![p.spline.t] = Pop(h2[p.spline.t], 0 - 5)]
              ELSE h2
        c3 == IF right = "not_a_knot"
              THEN [c2 EXCEPT !.spline.n = c2.spline.n - 1]
              ELSE c2
    IN  IF bad THEN Thrown("ValueError", h1, c1)
        ELSE IF left \notin {"natural", "not_a_knot"}
        THEN Thrown("NotImplementedError", h1, c1)
        ELSE IF right \notin {"natural", "not_a_knot"}
        THEN Thrown("NotImplementedError", h2, c2)
        ELSE Done(h3, [c3 EXCEPT !.spline.c =
                          <<"solved", tauR, yR, left_n, right_n, duals>>])

\* a faulty csolve that solves again over supplied coefficients
csolve_unfrozen(h, c) ==
    IF c.spline.nil THEN Done(h, c) ELSE csolve_spline(h, c)

csolve(h, c) ==
    IF c.spline.nil \/ c.c_init THEN Done(h, c) ELSE csolve_spline(h, c)

Dec(i) == IF i < 10 THEN <<"0", "1", "2", "3", "4", "5", "6", "7", "8", "9">>[i + 1]
          ELSE <<"0", "1", "2", "3", "4", "5", "6", "7", "8", "9">>[(i \div 10) + 1]
               \o <<"0", "1", "2", "3", "4", "5", "6", "7", "8", "9">>[(i % 10) + 1]

\* a faulty node dict that numbers the variables from 1
set_ad_order_nodes_from_one(nodes, order, id) ==
    [j \in 1..Len(nodes) |->
        IF order = 0 THEN Node(nodes[j].k, nodes[j].re, 0, "")
        ELSE Node(nodes[j].k, nodes[j].re, order, id \o Dec(j))]

\* the new node dict _set_ad_order builds: float(v), or DualType(float(v), id + i)
set_ad_order_nodes(nodes, order, id) ==
    [j \in 1..Len(nodes) |->
        IF order = 0 THEN Node(nodes[j].k, nodes[j].re, 0, "")
        ELSE Node(nodes[j].k, nodes[j].re, order, id \o Dec(j - 1))]

\* a faulty _set_ad_order that solves the spline before the nodes are
\* regenerated
set_ad_order_solved_first(h, c, order) ==
    IF order = c.ad THEN Done(h, c)
    ELSE IF order \notin {0, 1, 2} THEN Thrown("ValueError", h, c)
    ELSE LET r == csolve(h, [c EXCEPT !.ad = order])
             own == Own(c.obj, "nodes")
         IN  [r EXCEPT !.h = [r.h EXCEPT ![own] =
                                 set_ad_order_nodes(h[c.nodes], order, c.id)],
                       !.c = [r.c EXCEPT !.nodes = own]]

\* a faulty _set_ad_order that stores the order before it validates it
set_ad_order_eager(h, c, order) ==
    IF order = c.ad THEN Done(h, c)
    ELSE IF order \notin {0, 1, 2}
    THEN Thrown("ValueError", h, [c EXCEPT !.ad = order])
    ELSE LET own == Own(c.obj, "nodes")
             h1 == [h EXCEPT ![own] = set_ad_order_nodes(h[c.nodes], order, c.id)]
             c1 == [c EXCEPT !.ad = order, !.nodes = own]
         IN  csolve(h1, c1)

set_ad_order(h, c, order) ==
    IF order = c.ad THEN Done(h, c)
    ELSE IF order \notin {0, 1, 2} THEN Thrown("ValueError", h, c)
    ELSE LET own == Own(c.obj, "nodes")
             h1 == [h EXCEPT ![own] = set_ad_order_nodes(h[c.nodes], order, c.id)]
             c1 == [c EXCEPT !.ad = order, !.nodes = own]
         IN  csolve(h1, c1)

\* --------------------------------------------------------- Curve.__init__
\* a faulty lower() that reads every unknown name as "natural"
LowerOrNatural(e) ==
    IF e = "NATURAL" THEN "natural"
    ELSE IF e \in {"NOT_A_KNOT", "not_a_knot"} THEN "not_a_knot"
    ELSE "natural"

\* str.lower() on the endpoint names in use
Lower(e) ==
    IF e = "NATURAL" THEN "natural"
    ELSE IF e = "NOT_A_KNOT" THEN "not_a_knot"
    ELSE e

\* defaults.interpolation[type(self).__name__]
default_interpolation(kind) == IF kind = "Curve" THEN "log_linear" ELSE "linear"

NoCurve ==
    [obj |-> "None", kind |-> "None", id |-> "", nodes |-> NoRef,
     node_dates |-> <<>>, n |-> 0, interpolation |-> "None",
     convention |-> "None", spline_endpoints |-> <<"None", "None">>,
     t |-> NoRef, c_init |-> FALSE, spline |-> NoSpline, ad |-> NoAd]

\* a faulty test that lets nine knots through
not_a_knot_short_of_nine(knots, endpoints) ==
    Len(knots) < 9 /\ "not_a_knot" \in {endpoints[1], endpoints[2]}

\* len(self.t) < 10 and "not_a_knot" in self.spline_endpoints
not_a_knot_short(knots, endpoints) ==
    Len(knots) < 10 /\ "not_a_knot" \in {endpoints[1], endpoints[2]}

\* nodes and t are references into h; c is <<"none">> or the supplied
\* coefficients; endpoints is a pair of names; id "" stands for None and
\* uuid for the value uuid4() then draws
Curve_init(h, obj, kind, nodes, interpolation, t, c, endpoints, id, convention, ad, uuid) ==
    LET p == IF t = NoRef THEN [h |-> h, spline |-> NoSpline]
             ELSE PPSpline(h, obj, 4, t, c)
        self == [obj |-> obj,
                 kind |-> kind,
                 id |-> IF id = "" THEN uuid \o "_" ELSE id,
                 nodes |-> nodes,
                 node_dates |-> Keys(h[nodes]),
                 n |-> Len(h[nodes]),
                 interpolation |-> IF interpolation = "None"
                                   THEN default_interpolation(kind)
                                   ELSE interpolation,
                 convention |-> convention,
                 spline_endpoints |-> <<Lower(endpoints[1]), Lower(endpoints[2])>>,
                 t |-> t,
                 c_init |-> c[1] # "none",
                 spline |-> p.spline,
                 ad |-> NoAd]
    IN  IF t # NoRef /\ not_a_knot_short(h[t], self.spline_endpoints)
        THEN Thrown("ValueError", p.h, self)
        ELSE set_ad_order(p.h, self, ad)

\* ------------------------------------------------------------ Curve.shift
\* x.copy(): a new container at dst holding what src holds
\* a faulty copy that hands back the container itself
Aliased(h, src, dst) == [h |-> h, ref |-> src]

Copied(h, src, dst) == [h |-> [h EXCEPT ![dst] = h[src]], ref |-> dst]

Days(ticks) == ticks \div DayTicks

\* a faulty loop that adds the spread as a whole number of basis points
RECURSIVE shift_values_whole(_, _, _, _, _)
shift_values_whole(nodes, i, v_new, d, spread) ==
    IF i > Len(nodes) THEN [st |-> "ok", v |-> v_new]
    ELSE LET n == Days(nodes[i].k - nodes[i - 1].k)
         IN  IF n = 0 \/ IsZero(nodes[i].re)
             THEN [st |-> "ZeroDivisionError", v |-> v_new]
             ELSE LET v1v2 == TPow(TDiv(nodes[i - 1].re, nodes[i].re), Q(1, n))
                      base == TAdd(v1v2, TMul(d, spread))
                  IN  IF IsZero(base)
                      THEN [st |-> "ZeroDivisionError", v |-> v_new]
                      ELSE shift_values_whole(nodes, i + 1,
                               Append(v_new, TDiv(v_new[i - 1], TPow(base, Q(n, 1)))),
                               d, spread)

\* the loop of Curve.shift over the nodes i = 2..n (1-based): v_new so far
RECURSIVE shift_values(_, _, _, _, _)
shift_values(nodes, i, v_new, d, spread) ==
    IF i > Len(nodes) THEN [st |-> "ok", v |-> v_new]
    ELSE LET n == Days(nodes[i].k - nodes[i - 1].k)
         IN  IF n = 0 \/ IsZero(nodes[i].re)
             THEN [st |-> "ZeroDivisionError", v |-> v_new]
             ELSE LET v1v2 == TPow(TDiv(nodes[i - 1].re, nodes[i].re), Q(1, n))
                      base == TAdd(v1v2, TDiv(TMul(d, spread), Q(10000, 1)))
                  IN  IF IsZero(base)
                      THEN [st |-> "ZeroDivisionError", v |-> v_new]
                      ELSE shift_values(nodes, i + 1,
                               Append(v_new, TDiv(v_new[i - 1], TPow(base, Q(n, 1)))),
                               d, spread)

shift(h, c, spread, uuid) ==
    IF c.kind = "Curve"
    THEN LET d == IF Upper(c.convention) # "ACT360" THEN Q(1, 365) ELSE Q(1, 360)
             r == shift_values(h[c.nodes], 2, <<Q1>>, d, spread)
             cp == Copied(h, c.nodes, "b.nodes")
             h1 == [cp.h EXCEPT ![cp.ref] =
                       [i \in 1..Len(@) |-> Node(@[i].k, r.v[i], 0, "")]]
         IN  IF r.st # "ok" THEN Thrown(r.st, h, NoCurve)
             ELSE Curve_init(h1, "b", "Curve", cp.ref, c.interpolation, c.t,
                             <<"none">>, c.spline_endpoints, "", c.convention,
                             c.ad, uuid)
    ELSE LET h1 == [h EXCEPT !["b.nodes"] =
                       [i \in 1..Len(h[c.nodes]) |->
                           Node(h[c.nodes][i].k,
                                TAdd(h[c.nodes][i].re, TDiv(spread, Q(100, 1))),
                                0, "")]]
         IN  Curve_init(h1, "b", "LineCurve", "b.nodes", c.interpolation, c.t,
                        <<"none">>, c.spline_endpoints, "", c.convention,
                        c.ad, uuid)

\* -------------------------------------------------------- Curve.translate
Failing(e) == [st |-> e, nodes |-> <<>>]

\* a faulty re-organisation that never deletes the second node
translate_kept_second(c, start, d) == SubSeq(d, 2, Len(d))

\* _translate_nodes once self[start] has been evaluated to s
translate_kept(c, start, d) ==
    IF start = c.node_dates[2] THEN SubSeq(d, 3, Len(d)) ELSE SubSeq(d, 2, Len(d))

translate_scaled(nodes, scalar) ==
    [i \in 1..Len(nodes) |-> Node(nodes[i].k, TMul(scalar, nodes[i].re), 0, "")]

translate_valued(nodes, c, start, s) ==
    IF c.kind = "Curve"
    THEN IF s.st # "ok" THEN Failing(s.st)
         ELSE IF IsZero(s.v) THEN Failing("ZeroDivisionError")
         ELSE [st |-> "ok",
               nodes |-> <<Node(start, Q1, 0, "")>>
                         \o translate_kept(c, start,
                                translate_scaled(nodes, TDiv(Q1, s.v)))]
    ELSE IF start = c.node_dates[2]
         THEN [st |-> "ok", nodes |-> SubSeq(nodes, 2, Len(nodes))]
         ELSE IF s.st # "ok" THEN Failing(s.st)
         ELSE [st |-> "ok",
               nodes |-> <<Node(start, s.v, 0, "")>> \o SubSeq(nodes, 2, Len(nodes))]

translate_nodes(h, c, start) ==
    translate_valued(h[c.nodes], c, start, getitem(h, c, start))

\* a faulty knot move that stops after three knots
translate_knots_three(h, c, start, t, new) ==
    IF c.t = NoRef THEN [h |-> h, ref |-> NoRef]
    ELSE IF h[c.t][1] < start /\ start < h[c.t][5] /\ t
    THEN [h |-> [h EXCEPT ![Own(new, "t")] =
                    [i \in 1..Len(h[c.t]) |-> IF i <= 3 THEN start ELSE h[c.t][i]]],
          ref |-> Own(new, "t")]
    ELSE Copied(h, c.t, Own(new, "t"))

\* self.t.copy(), with the first four knots moved to start when t is set
\* and start lies inside the first knot interval
translate_knots(h, c, start, t, new) ==
    IF c.t = NoRef THEN [h |-> h, ref |-> NoRef]
    ELSE IF h[c.t][1] < start /\ start < h[c.t][5] /\ t
    THEN [h |-> [h EXCEPT ![Own(new, "t")] =
                    [i \in 1..Len(h[c.t]) |-> IF i <= 4 THEN start ELSE h[c.t][i]]],
          ref |-> Own(new, "t")]
    ELSE Copied(h, c.t, Own(new, "t"))

\* the constructor call that ends translate, on the knots kn
translate_new(c, kn, nodes, uuid, new) ==
    Curve_init([kn.h EXCEPT ![Own(new, "nodes")] = nodes], new, c.kind,
               Own(new, "nodes"), c.interpolation, kn.ref, <<"none">>,
               c.spline_endpoints, "", c.convention, c.ad, uuid)

\* a faulty knot test that lets a start on the first interior knot through
translate_built_on_knot(h, c, start, t, uuid, new, nn) ==
    IF nn.st # "ok" THEN Thrown(nn.st, h, NoCurve)
    ELSE IF c.t # NoRef /\ h[c.t][1] < start /\ h[c.t][5] < start
    THEN Thrown("ValueError", Copied(h, c.t, Own(new, "t")).h, NoCurve)
    ELSE translate_new(c, translate_knots(h, c, start, t, new), nn.nodes, uuid, new)

\* translate past its domain test, with the new nodes nn computed
translate_built(h, c, start, t, uuid, new, nn) ==
    IF nn.st # "ok" THEN Thrown(nn.st, h, NoCurve)
    ELSE IF c.t # NoRef /\ h[c.t][1] < start /\ h[c.t][5] <= start
    THEN Thrown("ValueError", Copied(h, c.t, Own(new, "t")).h, NoCurve)
    ELSE translate_new(c, translate_knots(h, c, start, t, new), nn.nodes, uuid, new)

\* a faulty translate whose domain test lets the first node date through
translate_closed(h, c, start, t, uuid, new) ==
    IF start < c.node_dates[1] THEN Thrown("ValueError", h, NoCurve)
    ELSE IF c.n < 2 THEN Thrown("IndexError", h, NoCurve)
    ELSE IF c.node_dates[2] < start THEN Thrown("ValueError", h, NoCurve)
    ELSE translate_built(h, c, start, t, uuid, new, translate_nodes(h, c, start))

\* the curve translate builds is the object new
translate(h, c, start, t, uuid, new) ==
    IF start <= c.node_dates[1] THEN Thrown("ValueError", h, NoCurve)
    ELSE IF c.n < 2 THEN Thrown("IndexError", h, NoCurve)
    ELSE IF c.node_dates[2] < start THEN Thrown("ValueError", h, NoCurve)
    ELSE translate_built(h, c, start, t, uuid, new, translate_nodes(h, c, start))

\* ------------------------------------------------------------- Curve.copy
DayFloor(date) == (date \div DayTicks) * DayTicks

\* {dt.strftime("%Y-%m-%d"): v.real ...} read back by strptime: one entry per
\* calendar day, at the place of the day's first node, holding its last value
RECURSIVE json_nodes(_, _)
json_nodes(nodes, acc) ==
    IF nodes = <<>> THEN acc
    ELSE LET k == DayFloor(Head(nodes).k)
             nd == Node(k, Head(nodes).re, 0, "")
         IN  IF \E i \in 1..Len(acc) : acc[i].k = k
             THEN json_nodes(Tail(nodes),
                     [i \in 1..Len(acc) |-> IF acc[i].k = k THEN nd ELSE acc[i]])
             ELSE json_nodes(Tail(nodes), Append(acc, nd))

copy(h, c) ==
    LET h1 == [h EXCEPT !["b.nodes"] = json_nodes(h[c.nodes], <<>>)]
        h2 == IF c.t = NoRef THEN h1
              ELSE [h1 EXCEPT !["b.t"] =
                       [i \in 1..Len(h[c.t]) |-> DayFloor(h[c.t][i])]]
    IN  Curve_init(h2, "b", c.kind, "b.nodes",
                   IF IsCallable(c.interpolation) THEN "None"
                   ELSE c.interpolation,
                   IF c.t = NoRef THEN NoRef ELSE "b.t",
                   IF c.c_init THEN c.spline.c ELSE <<"none">>,
                   c.spline_endpoints, c.id, c.convention, c.ad, "")

\* ------------------------------------------------------------- Curve.roll
\* {first, **rest}: a key of rest that equals first's keeps first's place
\* a faulty merge that puts the first node back behind the others
DictMerge_behind(first, rest) ==
    SelectSeq(rest, LAMBDA nd : nd.k # first.k) \o <<first>>

DictMerge(first, rest) ==
    IF \E i \in 1..Len(rest) : rest[i].k = first.k
    THEN <<DictGet(rest, first.k)>> \o SelectSeq(rest, LAMBDA nd : nd.k # first.k)
    ELSE <<first>> \o rest

\* calendars.add_tenor(date, "1d", None, calendar)
add_tenor_1d(date) == date + DayTicks

\* {k + timedelta(days=days): v * scalar for k, v in self.nodes.items()}
roll_moved(nodes, days, scalar) ==
    [i \in 1..Len(nodes) |->
        Node(nodes[i].k + days * DayTicks, TMul(nodes[i].re, scalar), 0, "")]

\* a faulty roll that never puts the first node back
roll_first_dropped(first, value, tenor, new_nodes) == new_nodes

\* the first node put back in front when the curve is rolled forward
roll_first(first, value, tenor, new_nodes) ==
    IF tenor > first THEN DictMerge(Node(first, value, 0, ""), new_nodes)
    ELSE new_nodes

\* scalar = 1 / ((1 + on_rate * d / 100) ** days), on_rate what rate returned
roll_scalar(on_rate, d, days) ==
    LET base == TAdd(Q1, TDiv(TMul(on_rate.v, d), Q(100, 1)))
    IN  IF on_rate.st # "ok" THEN [st |-> on_rate.st, v |-> Q0]
        ELSE IF on_rate.none THEN [st |-> "TypeError", v |-> Q0]
        ELSE IF IsZero(base) /\ days # 0 THEN [st |-> "ZeroDivisionError", v |-> Q0]
        ELSE [st |-> "ok", v |-> TDiv(Q1, TPow(base, Q(days, 1)))]

roll_scaled(nodes, first, tenor, days, scalar) ==
    IF scalar.st # "ok" THEN Failing(scalar.st)
    ELSE [st |-> "ok",
          nodes |-> roll_first(first, Q1, tenor, roll_moved(nodes, days, scalar.v))]

roll_valued(nodes, first, tenor, days, v) ==
    IF v.st # "ok" THEN Failing(v.st)
    ELSE [st |-> "ok",
          nodes |-> roll_first(first, v.v, tenor, roll_moved(nodes, days, Q1))]

roll_nodes(h, c, tenor, days) ==
    IF c.kind = "Curve"
    THEN roll_scaled(h[c.nodes], c.node_dates[1], tenor, days,
             roll_scalar(rate(h, c, c.node_dates[1], add_tenor_1d(c.node_dates[1])),
                         IF Upper(c.convention) # "ACT360" THEN Q(1, 365)
                         ELSE Q(1, 360),
                         days))
    ELSE IF tenor > c.node_dates[1]
    THEN roll_valued(h[c.nodes], c.node_dates[1], tenor, days,
                     getitem(h, c, c.node_dates[1]))
    ELSE [st |-> "ok", nodes |-> roll_moved(h[c.nodes], days, Q1)]

\* the heap with the rolled nodes and knots of the curve new
roll_heap(h, c, new, days, nodes) ==
    IF c.t = NoRef \/ h[c.t] = <<>>
    THEN [h EXCEPT ![Own(new, "nodes")] = nodes]
    ELSE [h EXCEPT ![Own(new, "nodes")] = nodes,
                   ![Own(new, "t")] =
                       [i \in 1..Len(h[c.t]) |-> h[c.t][i] + days * DayTicks]]

\* a faulty roll that returns the moved curve without translating it
roll_return_moved(h, c, tenor, new_curve, uuid_t) ==
    IF new_curve.st # "ok" THEN Thrown(new_curve.st, h, NoCurve)
    ELSE new_curve

\* what roll returns once new_curve is built
roll_return(h, c, tenor, new_curve, uuid_t) ==
    IF new_curve.st # "ok" THEN Thrown(new_curve.st, h, NoCurve)
    ELSE IF tenor > c.node_dates[1] THEN new_curve
    ELSE translate(new_curve.h, new_curve.c, c.node_dates[1], FALSE, uuid_t, "b")

roll_built(h, c, tenor, days, new, new_nodes, uuid, uuid_t) ==
    IF new_nodes.st # "ok" THEN Thrown(new_nodes.st, h, NoCurve)
    ELSE roll_return(h, c, tenor,
             Curve_init(roll_heap(h, c, new, days, new_nodes.nodes), new, c.kind,
                        Own(new, "nodes"), c.interpolation,
                        IF c.t = NoRef \/ h[c.t] = <<>> THEN NoRef ELSE Own(new, "t"),
                        <<"none">>, c.spline_endpoints, "", c.convention,
                        c.ad, uuid),
             uuid_t)

\* a curve rolled forward is built as b; one rolled backward as c, and then
\* translated to b
roll(h, c, tenor, uuid, uuid_t) ==
    IF tenor = c.node_dates[1] THEN copy(h, c)
    ELSE roll_built(h, c, tenor, Days(tenor - c.node_dates[1]),
                    IF tenor > c.node_dates[1] THEN "b" ELSE "c",
                    roll_nodes(h, c, tenor, Days(tenor - c.node_dates[1])),
                    uuid, uuid_t)

\* ------------------------------------------------------------ the inputs
RECURSIVE SetToSeq(_)
SetToSeq(S) ==
    IF S = {} THEN <<>>
    ELSE LET m == CHOOSE x \in S : \A y \in S : x <= y
         IN  <<m>> \o SetToSeq(S \ {m})

Increasing(S, lo, hi) ==
    {SetToSeq(T) : T \in {U \in SUBSET S : Cardinality(U) >= lo /\ Cardinality(U) <= hi}}

Dates == 0..MaxDate
QueryDates == (0 - 1)..(MaxDate + 1)
RateDates == {d \in QueryDates : d % 2 = 1}
NodeDates == Increasing(Dates, 1, MaxNodes)
Vals == {Q0, Q(1, 2), Q1}
Interpolations == {"linear", "log_linear", "linear_zero_rate", "flat_forward",
                   "flat_backward", "<lambda: 0.0>", "<lambda: 0.5>"}
Kinds == {"Curve", "LineCurve"}
Uuids == {"a3f9c"}
Spreads == {Q0, Q(25, 1)}

\* clamped knot vectors of 8, 9 and 10 knots on consecutive whole days
Clamped(ks) ==
    <<ks[1], ks[1], ks[1], ks[1]>> \o SubSeq(ks, 2, Len(ks) - 1)
    \o <<ks[Len(ks)], ks[Len(ks)], ks[Len(ks)], ks[Len(ks)]>>
KnotVectors ==
    {Clamped([i \in 1..m |-> IF i = m THEN a + 3 * DayTicks
                             ELSE a + (i - 1) * DayTicks]) :
        a \in {d \in Dates : d % DayTicks = 0 /\ d < MaxDate}, m \in 2..4}
Endpoints == {"natural", "not_a_knot"}
\* the endpoint names a caller may pass, one of them not a policy
EndpointNames == {"natural", "not_a_knot", "NATURAL", "NOT_A_KNOT", "clamped"}

EmptyHeap == [s \in Slots |-> <<>>]
InputNodes(ds, vs) == [i \in 1..Len(ds) |-> Node(ds[i], vs[i], 0, "")]

NoCall == [op |-> "", a |-> <<>>, st |-> "", none |-> FALSE,
           v |-> Q0, cur |-> NoCurve]
NoIL == [d |-> <<>>, n |-> 0, v |-> 0, r |-> Failed, done |-> FALSE]

\* what is left of the heap when a call ends: the containers of cv, and
\* those of the curve the call returned
Kept(r) ==
    [s \in Slots |->
        IF SubSeq(s, 1, 2) = "a." THEN r.h[s]
        ELSE IF SubSeq(s, 1, 2) = "b." /\ r.st = "ok" THEN r.h[s]
        ELSE <<>>]
Cleared(h) == [s \in Slots |-> IF SubSeq(s, 1, 2) = "a." THEN h[s] ELSE <<>>]

Constructed(kind, nodes, interpolation, t, c, endpoints, convention, ad) ==
    LET h == [EmptyHeap EXCEPT !["a.nodes"] = nodes, !["a.t"] = t]
        r == Curve_init(h, "a", kind, "a.nodes", interpolation,
                        IF t = <<>> THEN NoRef ELSE "a.t", c, endpoints, "v",
                        convention, ad, "")
    IN  /\ r.st = "ok"
        /\ cv = r.c
        /\ heap = r.h

\* the node values 1, 1/2, 1/2, ... of a discount curve
Profile(ds) == [i \in 1..Len(ds) |-> IF i = 1 THEN Q1 ELSE Q(1, 2)]

\* the node values 0, 0, ... no discount curve with a spline can take
ZeroProfile(ds) == [i \in 1..Len(ds) |-> Q0]

\* curves without a knot vector: every rule, every value
InitLocal ==
    \E kind \in Kinds, ds \in NodeDates, interpolation \in Interpolations :
      \E vs \in [1..Len(ds) -> Vals] :
        Constructed(kind, InputNodes(ds, vs), interpolation, <<>>, <<"none">>,
                    <<"natural", "natural">>, "Act365F", 0)

\* curves constructed with dual node values
InitDual ==
    \E kind \in Kinds, ds \in NodeDates, interpolation \in Interpolations,
       ad \in 1..2 :
        Constructed(kind, InputNodes(ds, Profile(ds)), interpolation, <<>>,
                    <<"none">>, <<"natural", "natural">>, "Act365F", ad)

\* curves with a knot vector: every knot vector, endpoint policy, with and
\* without supplied coefficients
InitSpline ==
    \E kind \in Kinds, ds \in NodeDates,
       interpolation \in {"None", "<lambda: 0.5>"}, ad \in 0..1,
       t \in KnotVectors, left \in Endpoints, right \in Endpoints,
       c \in {<<"none">>, <<"given">>} :
        Constructed(kind, InputNodes(ds, Profile(ds)), interpolation, t, c,
                    <<left, right>>, "Act365F", ad)

\* curves under the other day count convention
InitConvention ==
    \E kind \in Kinds, ds \in NodeDates :
      \E vs \in [1..Len(ds) -> Vals] :
        Constructed(kind, InputNodes(ds, vs), "None", <<>>, <<"none">>,
                    <<"natural", "natural">>, "Act360", 0)

Init ==
    /\ InitLocal \/ InitDual \/ InitSpline \/ InitConvention
    /\ out = NoCall
    /\ il = NoIL

\* ----------------------------------------------------------- the actions
Value(op, a, r) ==
    [op |-> op, a |-> a, st |-> r.st, none |-> r.none, v |-> r.v, cur |-> NoCurve]
Built(op, a, r) ==
    [op |-> op, a |-> a, st |-> r.st, none |-> FALSE, v |-> Q0,
     cur |-> IF r.st = "ok" THEN r.c ELSE NoCurve]
Idle == out.op = ""

Getitem ==
    \E date \in QueryDates :
        /\ Idle
        /\ out' = Value("getitem", <<date>>, getitem(heap, cv, date))
        /\ UNCHANGED <<cv, heap, il>>

Rate ==
    \E effective \in RateDates, termination \in RateDates :
        /\ Idle
        /\ out' = Value("rate", <<effective, termination>>,
                        rate(heap, cv, effective, termination))
        /\ UNCHANGED <<cv, heap, il>>

SetAdOrder ==
    \E order \in 0..3 :
        LET r == set_ad_order(heap, cv, order)
        IN  /\ Idle
            /\ cv' = r.c
            /\ heap' = r.h
            /\ out' = [NoCall EXCEPT !.op = "set_ad_order", !.a = <<order>>,
                                     !.st = r.st]
            /\ UNCHANGED il

Csolve ==
    LET r == csolve(heap, cv)
    IN  /\ Idle
        /\ cv' = r.c
        /\ heap' = r.h
        /\ out' = [NoCall EXCEPT !.op = "csolve", !.st = r.st]
        /\ UNCHANGED il

Shift ==
    \E spread \in Spreads, uuid \in Uuids :
        LET r == shift(heap, cv, spread, uuid)
        IN  /\ Idle
            /\ out' = Built("shift", <<spread>>, r)
            /\ heap' = Kept(r)
            /\ UNCHANGED <<cv, il>>

Translate ==
    \E start \in QueryDates, t \in BOOLEAN, uuid \in Uuids :
        LET r == translate(heap, cv, start, t, uuid, "b")
        IN  /\ Idle
            /\ cv.t = NoRef => ~t
            /\ out' = Built("translate", <<start, IF t THEN 1 ELSE 0>>, r)
            /\ heap' = Kept(r)
            /\ UNCHANGED <<cv, il>>

Roll ==
    \E tenor \in QueryDates, uuid \in Uuids :
        LET r == roll(heap, cv, tenor, uuid, uuid)
        IN  /\ Idle
            /\ out' = Built("roll", <<tenor>>, r)
            /\ heap' = Kept(r)
            /\ UNCHANGED <<cv, il>>

Copy ==
    LET r == copy(heap, cv)
    IN  /\ Idle
        /\ out' = Built("copy", <<>>, r)
        /\ heap' = Kept(r)
        /\ UNCHANGED <<cv, il>>

\* the caller's node dict and knot list, made before the constructor is
\* called on them
Arguments ==
    \E ds \in NodeDates, zero \in BOOLEAN, t \in KnotVectors \cup {<<>>} :
        /\ Idle
        /\ heap["b.nodes"] = <<>>
        /\ heap' = [heap EXCEPT
                       !["b.nodes"] = InputNodes(ds, IF zero THEN ZeroProfile(ds)
                                                    ELSE Profile(ds)),
                       !["b.t"] = t]
        /\ UNCHANGED <<cv, out, il>>

\* Curve(...) or LineCurve(...) called on them: the object b
Construct ==
    \E kind \in Kinds, c \in {<<"none">>, <<"given">>},
       left \in EndpointNames, right \in EndpointNames, ad \in {0, 1, 3},
       uuid \in Uuids :
        LET r == Curve_init(heap, "b", kind, "b.nodes", "None",
                            IF heap["b.t"] = <<>> THEN NoRef ELSE "b.t", c,
                            <<left, right>>, "", "Act365F", ad, uuid)
        IN  /\ Idle
            /\ heap["b.nodes"] # <<>>
            /\ out' = Built("init", <<left, right, heap["b.t"], c[1], ad, kind,
                                      heap["b.nodes"]>>, r)
            /\ heap' = Kept(r)
            /\ UNCHANGED <<cv, il>>

\* the caller drops the result of the last call
\* the ids of two curves, given by the caller or made by uuid4, and a node
\* dict of n nodes a day apart
Ids == {"v", "v1", "w", "a3f9c_", "b7e21_"}
PlainNodes(n) == [i \in 1..n |-> Node((i - 1) * DayTicks, Q1, 0, "")]

\* the node dicts _set_ad_order gives two curves of n nodes with these ids
TagNodes ==
    \E id1 \in Ids, id2 \in Ids, n \in 1..MaxTagged, order \in 1..2 :
        /\ Idle
        /\ out' = [NoCall EXCEPT !.op = "tags", !.a = <<id1, id2, order>>]
        /\ heap' = [EmptyHeap EXCEPT
                       !["a.nodes"] = set_ad_order_nodes(PlainNodes(n), order, id1),
                       !["b.nodes"] = set_ad_order_nodes(PlainNodes(n), order, id2)]
        /\ UNCHANGED <<cv, il>>

\* _set_ad_order and csolve called on the curve a shift returned
SetAdOrderReturned ==
    \E order \in 0..2 :
        LET r == set_ad_order(heap, out.cur, order)
        IN  /\ out.op = "shift"
            /\ out.st = "ok"
            /\ out' = [out EXCEPT !.cur = r.c, !.st = r.st]
            /\ heap' = r.h
            /\ UNCHANGED <<cv, il>>

CsolveReturned ==
    LET r == csolve(heap, out.cur)
    IN  /\ out.op = "shift"
        /\ out.st = "ok"
        /\ out' = [out EXCEPT !.cur = r.c, !.st = r.st]
        /\ heap' = r.h
        /\ UNCHANGED <<cv, il>>

Discard ==
    /\ ~Idle
    /\ out' = NoCall
    /\ heap' = Cleared(heap)
    /\ UNCHANGED <<cv, il>>

Next ==
    \/ Getitem
    \/ Rate
    \/ SetAdOrder
    \/ Csolve
    \/ Shift
    \/ Translate
    \/ Roll
    \/ Copy
    \/ Arguments
    \/ Construct
    \/ SetAdOrderReturned
    \/ CsolveReturned
    \/ Discard

Spec == Init /\ [][Next]_vars

\* the same curves under the calls that read, that change the order,
\* and that build a new curve
NextEval == Getitem \/ Rate \/ Discard
SpecEval == Init /\ [][NextEval]_vars

NextOrder == SetAdOrder \/ Csolve \/ Discard
SpecOrder == Init /\ [][NextOrder]_vars

\* the calls that solve, on a curve and on the curve its shift returned
NextSolve ==
    SetAdOrder \/ Csolve \/ Shift \/ SetAdOrderReturned \/ CsolveReturned \/ Discard
SpecSolve == Init /\ [][NextSolve]_vars

\* a curve under any sequence of the calls that change its order and that
\* build a new curve from it
InitCalls ==
    /\ InitDual \/ InitSpline \/ InitConvention
    /\ out = NoCall
    /\ il = NoIL
NextCalls == SetAdOrder \/ Shift \/ Translate \/ Roll \/ Discard
SpecCalls == InitCalls /\ [][NextCalls]_vars

NextBuild == Shift \/ Translate \/ Roll \/ Copy \/ Discard
SpecBuild == Init /\ [][NextBuild]_vars

\* the constructor on its own, before any curve exists
InitConstruct ==
    /\ cv = NoCurve
    /\ heap = EmptyHeap
    /\ out = NoCall
    /\ il = NoIL

NextConstruct == Arguments \/ Construct \/ Discard
SpecConstruct == InitConstruct /\ [][NextConstruct]_vars

\* the variables of the nodes of two curves
NextTags == TagNodes \/ Discard
SpecTags == InitConstruct /\ [][NextTags]_vars

\* ------------------------------------------------- index_left on its own
KeyLists == Increasing(0..MaxKeys, 1, MaxKeys + 1)
KeyQueries == (0 - 1)..(MaxKeys + 1)

InitIndexLeft ==
    /\ cv = NoCurve
    /\ heap = EmptyHeap
    /\ out = NoCall
    /\ \E d \in KeyLists, v \in KeyQueries :
          il = [d |-> d, n |-> Len(d), v |-> v, r |-> Failed, done |-> FALSE]

IndexLeft ==
    /\ ~il.done
    /\ il' = [il EXCEPT !.r = index_left(il.d, il.n, il.v, 0), !.done = TRUE]
    /\ UNCHANGED <<cv, heap, out>>

SpecIndexLeft == InitIndexLeft /\ [][IndexLeft]_vars

\* ------------------------------------------------------------- properties
\* C1: on a strictly increasing list of n >= 2 keys index_left returns 0
\* for a query at or below the second key, n-2 for a query above the last
\* key, and otherwise the one i in 0..n-2 with d[i] < v <= d[i+1] (keys
\* counted from 0), so a query equal to key k >= 1 returns k-1
C1_IndexLeftContract ==
    (il.done /\ il.n >= 2) =>
        /\ il.v <= il.d[2] => il.r = 0
        /\ il.v > il.d[il.n] => il.r = il.n - 2
        /\ (il.v > il.d[2] /\ il.v <= il.d[il.n]) =>
              /\ il.r \in 0..(il.n - 2)
              /\ il.d[il.r + 1] < il.v
              /\ il.v <= il.d[il.r + 2]
              /\ \A i \in 0..(il.n - 2) :
                    (il.d[i + 1] < il.v /\ il.v <= il.d[i + 2]) => i = il.r
        /\ \A k \in 1..(il.n - 1) : il.v = il.d[k + 1] => il.r = k - 1

\* a query equal to an interior key of a list of five or more keys
C1_Witness ==
    /\ il.done
    /\ il.n >= 5
    /\ il.r = 2
    /\ il.v = il.d[4]

\* the first node date of the curve, and the real values of a node list
Anchor == cv.node_dates[1]
Reals(d) == [i \in 1..Len(d) |-> d[i].re]
Zero(o) == o.st = "ok" /\ ~o.none /\ IsZero(o.v)

\* C2 as stated: for every curve, named or callable interpolation, with or
\* without knots, curve[date] is 0 for every date before the first node date
C2_ZeroBeforeAnchor ==
    (out.op = "getitem" /\ out.a[1] < Anchor) => Zero(out)

\* C2: on a curve with a named interpolation curve[date] is 0 for every date
\* that is before the first node date and, when there is a knot vector, not
\* after its first knot
C2_ZeroBeforeAnchorLocal ==
    (/\ out.op = "getitem"
     /\ out.a[1] < Anchor
     /\ ~IsCallable(cv.interpolation)
     /\ (cv.t = NoRef \/ out.a[1] <= heap[cv.t][1])) => Zero(out)

\* a curve with knots read before its first node, at or before its first knot
C2_Witness ==
    /\ out.op = "getitem"
    /\ out.a[1] < Anchor
    /\ cv.interpolation = "log_linear"
    /\ cv.t # NoRef
    /\ out.a[1] = heap[cv.t][1]
    /\ Zero(out)

C4_TranslatedAnchorIsOne ==
    (out.op = "translate" /\ out.st = "ok" /\ cv.kind = "Curve") =>
        LET s == getitem(heap, out.cur, out.a[1])
        IN  s.st = "ok" /\ ~s.none /\ IsOne(s.v)

C6_RollToAnchorIdentical ==
    (out.op = "roll" /\ out.a[1] = Anchor) =>
        /\ out.st = "ok"
        /\ out.cur.node_dates = cv.node_dates
        /\ Reals(heap[out.cur.nodes]) = Reals(heap[cv.nodes])
        /\ (cv.t = NoRef) = (out.cur.t = NoRef)
        /\ cv.t # NoRef => heap[out.cur.t] = heap[cv.t]
        /\ out.cur.interpolation = cv.interpolation
        /\ out.cur.spline_endpoints = cv.spline_endpoints

C8_NoneBeforeAnchor ==
    (/\ out.op = "rate"
     /\ cv.kind = "Curve"
     /\ (out.a[1] < Anchor \/ out.a[2] < Anchor))
    => (out.st = "ok" /\ out.none)

\* C9: _set_ad_order(order), order 0, 1 or 2, leaves the node dates and
\* their order and every node's real value as they were; after order 1 or 2
\* node i (from 0) is a dual variable of that order tagged with the curve's
\* id followed by i in decimal, after order 0 every node is a plain float
C9_NodesRetagged ==
    [][(out'.op = "set_ad_order" /\ out'.a[1] \in {0, 1, 2}) =>
          LET old == heap[cv.nodes]
              new == heap'[cv'.nodes]
          IN  /\ Keys(new) = Keys(old)
              /\ Reals(new) = Reals(old)
              /\ cv'.node_dates = cv.node_dates
              /\ \A i \in 1..Len(new) :
                    /\ new[i].ord = out'.a[1]
                    /\ new[i].tag = IF out'.a[1] = 0 THEN ""
                                    ELSE cv.id \o Dec(i - 1)]_vars

\* three nodes of a curve with knots made second-order variables v0, v1, v2
C9_Witness ==
    /\ out.op = "set_ad_order"
    /\ out.a = <<2>>
    /\ out.st = "ok"
    /\ cv.n = 3
    /\ cv.t # NoRef
    /\ [i \in 1..3 |-> heap[cv.nodes][i].tag] = <<"v0", "v1", "v2">>
    /\ \A i \in 1..3 : heap[cv.nodes][i].ord = 2

\* C10: _set_ad_order(order) with order not 0, 1 or 2 raises ValueError and
\* leaves the curve's ad, its nodes and its spline as they were
C10_InvalidOrderRejected ==
    [][(out'.op = "set_ad_order" /\ out'.a[1] \notin {0, 1, 2}) =>
          /\ out'.st = "ValueError"
          /\ cv'.ad = cv.ad
          /\ cv'.nodes = cv.nodes
          /\ heap'[cv'.nodes] = heap[cv.nodes]
          /\ cv'.spline = cv.spline
          /\ heap'["a.spline.t"] = heap["a.spline.t"]
          /\ cv' = cv]_vars

\* an order of 3 refused on a first-order curve with a solved spline
C10_Witness ==
    /\ out.op = "set_ad_order"
    /\ out.a = <<3>>
    /\ out.st = "ValueError"
    /\ cv.ad = 1
    /\ ~cv.spline.nil
    /\ cv.spline.c[1] = "solved"

\* C11: a curve constructed with explicit coefficients c keeps, through every
\* _set_ad_order and csolve call, the spline the constructor built: its
\* coefficients are the supplied c, and its knots and size are those of
\* PPSpline(4, t, c)
C11_SuppliedCoefficientsFrozen ==
    (cv.c_init /\ cv.t # NoRef) =>
        /\ ~cv.spline.nil
        /\ cv.spline.c = <<"given">>
        /\ cv.spline.n = Len(heap[cv.t]) - 4
        /\ heap[cv.spline.t] = heap[cv.t]

\* a curve with supplied coefficients and a not_a_knot end after csolve and
\* after a change to order 2
C11_Witness ==
    /\ cv.c_init
    /\ cv.spline.c = <<"given">>
    /\ cv.spline_endpoints[1] = "not_a_knot"
    /\ \/ out.op = "csolve" /\ out.st = "ok"
       \/ out.op = "set_ad_order" /\ out.st = "ok" /\ out.a = <<2>> /\ cv.ad = 2

\* the arguments of the last constructor call
Recognized == {"natural", "not_a_knot", "NATURAL", "NOT_A_KNOT"}
Unrecognized == out.a[1] \notin Recognized \/ out.a[2] \notin Recognized
HasKnots == out.a[3] # <<>>
NotAKnot == {out.a[1], out.a[2]} \cap {"not_a_knot", "NOT_A_KNOT"} # {}
\* a discount-factor node on or after the first knot whose logarithm fails
LogFails ==
    /\ out.a[6] = "Curve"
    /\ \E i \in 1..Len(out.a[7]) :
          /\ out.a[7][i].k >= out.a[3][1]
          /\ TSign(out.a[7][i].re) < 1

\* C12 as stated: an endpoint name other than natural and not_a_knot, in any
\* case, on a curve with a knot vector makes the constructor raise
\* NotImplementedError
C12_UnknownEndpointNotImplemented ==
    (out.op = "init" /\ HasKnots /\ Unrecognized) =>
        out.st = "NotImplementedError"

\* C12: on a curve with a knot vector and no supplied coefficients such a
\* name makes the constructor raise: ValueError when the order is not 0, 1
\* or 2, or there are fewer than 10 knots and a not_a_knot end, or a
\* discount-factor node on or after t[0] is not positive, and otherwise
\* NotImplementedError; so no such curve is returned
C12_UnknownEndpointRefused ==
    (out.op = "init" /\ HasKnots /\ out.a[4] = "none" /\ Unrecognized) =>
        /\ out.cur = NoCurve
        /\ out.st = IF out.a[5] \notin {0, 1, 2} THEN "ValueError"
                    ELSE IF Len(out.a[3]) < 10 /\ NotAKnot THEN "ValueError"
                    ELSE IF LogFails THEN "ValueError"
                    ELSE "NotImplementedError"

\* a LineCurve refused for its right endpoint name, the left one being
\* not_a_knot on ten knots
C12_Witness ==
    /\ out.op = "init"
    /\ out.a[1] = "NOT_A_KNOT"
    /\ out.a[2] = "clamped"
    /\ Len(out.a[3]) = 10
    /\ out.a[4] = "none"
    /\ out.a[5] = 1
    /\ out.a[6] = "LineCurve"
    /\ out.st = "NotImplementedError"

\* C13: a constructor call with a knot vector of fewer than 10 knots and
\* not_a_knot (in any case) at either end raises ValueError; with 10 knots
\* or more, recognized endpoint names, an order in 0, 1, 2 and logarithms
\* that exist, the call returns the curve
C13_NotAKnotNeedsTenKnots ==
    (out.op = "init" /\ HasKnots /\ NotAKnot) =>
        /\ Len(out.a[3]) < 10 => out.st = "ValueError" /\ out.cur = NoCurve
        /\ (/\ Len(out.a[3]) >= 10
            /\ ~Unrecognized
            /\ out.a[5] \in {0, 1, 2}
            /\ out.a[4] = "given" \/ ~LogFails)
           => (out.st = "ok" /\ out.cur.spline_endpoints[1] \in Endpoints)

\* nine knots refused for a right end written NOT_A_KNOT
C13_Witness ==
    /\ out.op = "init"
    /\ out.a[1] = "natural"
    /\ out.a[2] = "NOT_A_KNOT"
    /\ Len(out.a[3]) = 9
    /\ out.a[5] = 0
    /\ out.st = "ValueError"

\* C14 as stated: on a curve with a knot vector t, translate(start) with
\* start >= t[4] raises ValueError and returns no curve, whatever the flag
C14_TranslatePastKnotRefused ==
    (out.op = "translate" /\ cv.t # NoRef /\ out.a[1] >= heap[cv.t][5]) =>
        (out.st = "ValueError" /\ out.cur = NoCurve)

\* C14: on a curve with at least two nodes and a knot vector t,
\* translate(start) with start >= t[4] raises ValueError and returns no
\* curve, whatever the flag
C14_TranslatePastKnotRefusedTwoNodes ==
    (/\ out.op = "translate"
     /\ cv.t # NoRef
     /\ cv.n >= 2
     /\ out.a[1] >= heap[cv.t][5]) =>
        (out.st = "ValueError" /\ out.cur = NoCurve)

\* a start on the first interior knot, inside the node domain, refused with
\* the flag set
C14_Witness ==
    /\ out.op = "translate"
    /\ cv.t # NoRef
    /\ cv.n >= 2
    /\ out.a[1] = heap[cv.t][5]
    /\ Anchor < out.a[1]
    /\ out.a[1] <= cv.node_dates[2]
    /\ out.a[2] = 1
    /\ out.st = "ValueError"

\* what Serialize.__eq__ compares on two curves of one class: every public
\* attribute that is not callable on the left-hand curve
CurveEq(h, c1, c2) ==
    /\ c1.kind = c2.kind
    /\ h[c1.nodes] = h[c2.nodes]
    /\ c1.node_dates = c2.node_dates
    /\ c1.n = c2.n
    /\ IsCallable(c1.interpolation) \/ c1.interpolation = c2.interpolation
    /\ (c1.t = NoRef) = (c2.t = NoRef)
    /\ c1.t # NoRef => h[c1.t] = h[c2.t]
    /\ c1.c_init = c2.c_init
    /\ c1.spline.nil = c2.spline.nil
    /\ ~c1.spline.nil =>
          /\ h[c1.spline.t] = h[c2.spline.t]
          /\ c1.spline.n = c2.spline.n
          /\ c1.spline.c = c2.spline.c
    /\ c1.spline_endpoints = c2.spline_endpoints
    /\ c1.id = c2.id
    /\ c1.convention = c2.convention
    /\ c1.ad = c2.ad

\* C15 as stated: c.copy() is a distinct instance that compares equal to c
\* under ==, with the same node dates and real values, interpolation, knot
\* vector, endpoints, id, convention and ad order
C15_CopyEqual ==
    out.op = "copy" =>
        /\ out.st = "ok"
        /\ out.cur.obj # cv.obj
        /\ CurveEq(heap, cv, out.cur)
        /\ out.cur.interpolation = cv.interpolation

\* the spline's answer at date: ppev_single, exponentiated for a Curve
SplineAnswer(date) ==
    IF cv.spline.c[1] = "none" THEN Raise("TypeError")
    ELSE Ok(IF cv.kind = "Curve"
            THEN dual_exp(<<"ppev", cv.spline.c, heap[cv.spline.t], date>>)
            ELSE <<"ppev", cv.spline.c, heap[cv.spline.t], date>>)

\* the answer from the nodes at date: the callable's, or _local_interp_'s
LocalAnswer(date) ==
    IF cv.interpolation = "<lambda: 0.0>" THEN Ok(Q0)
    ELSE IF cv.interpolation = "<lambda: 0.5>" THEN Ok(Q(1, 2))
    ELSE local_interp(heap, cv, date)

\* C16: curve[date] is the callable's or the local rule's answer exactly
\* when the curve has no spline or date <= t[0]; for every date > t[0] it
\* is the spline's answer, exponentiated for a Curve and unchanged for a
\* LineCurve
C16_GetitemDispatch ==
    out.op = "getitem" =>
        [st |-> out.st, none |-> out.none, v |-> out.v] =
            IF cv.t = NoRef \/ out.a[1] <= heap[cv.t][1]
            THEN LocalAnswer(out.a[1])
            ELSE SplineAnswer(out.a[1])

\* a curve with knots and a callable read on its first knot, after its
\* first node, and answered by the callable
C16_Witness ==
    /\ out.op = "getitem"
    /\ cv.t # NoRef
    /\ cv.interpolation = "<lambda: 0.5>"
    /\ out.a[1] = heap[cv.t][1]
    /\ out.a[1] > Anchor
    /\ out.st = "ok"
    /\ out.v = Q(1, 2)

\* v divided by s, as the product of v and the reciprocal of s
Over(v, s) == TMul(TDiv(Q1, s), v)

\* the source nodes strictly later than start, and the value of the source
\* at start
Later(start) == SelectSeq(heap[cv.nodes], LAMBDA nd : nd.k > start)
ValueAt(start) == getitem(heap, cv, start).v

\* C17 as stated: the node dates of translate(start) are start followed by
\* the source's node dates strictly later than start, in order; for Curve
\* the values are 1.0 followed by each kept source value divided by the
\* source's value at start, for LineCurve the source's value at start (where
\* the source has one) followed by the kept source values unchanged
C17_TranslatedNodes ==
    (out.op = "translate" /\ out.st = "ok") =>
        /\ out.cur.node_dates = <<out.a[1]>> \o Keys(Later(out.a[1]))
        /\ Keys(heap[out.cur.nodes]) = out.cur.node_dates
        /\ Reals(heap[out.cur.nodes]) =
              IF cv.kind = "Curve"
              THEN <<Q1>> \o [i \in 1..Len(Later(out.a[1])) |->
                                Over(Later(out.a[1])[i].re, ValueAt(out.a[1]))]
              ELSE IF getitem(heap, cv, out.a[1]).st = "ok"
              THEN <<ValueAt(out.a[1])>> \o Reals(Later(out.a[1]))
              ELSE <<heap[out.cur.nodes][1].re>> \o Reals(Later(out.a[1]))

\* C17: the node dates of translate(start) are start followed by the
\* source's node dates strictly later than start, in order; for Curve the
\* values are 1.0 followed by each kept source value divided by the source's
\* value at start; for LineCurve the kept source values are unchanged and
\* the first value is the second node's own value when start is its date,
\* and the source's value at start otherwise
C17_TranslatedNodesOwnSecond ==
    (out.op = "translate" /\ out.st = "ok") =>
        /\ out.cur.node_dates = <<out.a[1]>> \o Keys(Later(out.a[1]))
        /\ Keys(heap[out.cur.nodes]) = out.cur.node_dates
        /\ Reals(heap[out.cur.nodes]) =
              IF cv.kind = "Curve"
              THEN <<Q1>> \o [i \in 1..Len(Later(out.a[1])) |->
                                Over(Later(out.a[1])[i].re, ValueAt(out.a[1]))]
              ELSE IF out.a[1] = cv.node_dates[2]
              THEN <<heap[cv.nodes][2].re>> \o Reals(Later(out.a[1]))
              ELSE <<ValueAt(out.a[1])>> \o Reals(Later(out.a[1]))

\* a three-node Curve translated onto its second node date: two nodes left
C17_Witness ==
    /\ out.op = "translate"
    /\ out.st = "ok"
    /\ cv.kind = "Curve"
    /\ cv.n = 3
    /\ out.a[1] = cv.node_dates[2]
    /\ out.cur.n = 2
    /\ Reals(heap[out.cur.nodes]) = <<Q1, Q(1, 2)>>

RollDays == Days(out.a[1] - Anchor)
Moved(dates, days) == [i \in 1..Len(dates) |-> dates[i] + days * DayTicks]

\* the rolled curve of a roll forward by D > 0 days: the source's first node
\* date, with value 1.0 for Curve and the source's value there for
\* LineCurve, then every source node date D days later, in order; every
\* knot D days later; LineCurve node values unchanged
RolledForward ==
    /\ out.cur.n = cv.n + 1
    /\ out.cur.node_dates = <<Anchor>> \o Moved(cv.node_dates, RollDays)
    /\ Keys(heap[out.cur.nodes]) = out.cur.node_dates
    /\ heap[out.cur.nodes][1].re =
          IF cv.kind = "Curve" THEN Q1 ELSE ValueAt(Anchor)
    /\ cv.kind = "LineCurve" =>
          Tail(Reals(heap[out.cur.nodes])) = Reals(heap[cv.nodes])
    /\ (cv.t = NoRef) = (out.cur.t = NoRef)
    /\ cv.t # NoRef => heap[out.cur.t] = Moved(heap[cv.t], RollDays)

Shifted(days, scalar) ==
    Curve_init(roll_heap(heap, cv, "c", days,
                         roll_moved(heap[cv.nodes], days, scalar)),
               "c", cv.kind, "c.nodes", cv.interpolation,
               IF cv.t = NoRef THEN NoRef ELSE "c.t", <<"none">>,
               cv.spline_endpoints, "", cv.convention, cv.ad, "a3f9c")

\* translate(first node date of the source) called on that curve
TranslatedBack(shifted) ==
    IF shifted.st # "ok" THEN shifted
    ELSE translate(shifted.h, shifted.c, Anchor, FALSE, "a3f9c", "b")

\* two lists of numbers that agree wherever both are plain rationals
SameNumbers(xs, ys) ==
    /\ Len(xs) = Len(ys)
    /\ \A i \in 1..Len(xs) : (IsQ(xs[i]) /\ IsQ(ys[i])) => xs[i] = ys[i]

\* what a roll backward returned is what e is: the same exception, or the
\* same node dates, values and knots
SameOutcome(e) ==
    /\ (out.st = "ValueError") = (e.st = "ValueError")
    /\ out.st = "ok" =>
          /\ e.st = "ok"
          /\ out.cur.node_dates[1] = Anchor
          /\ out.cur.node_dates = e.c.node_dates
          /\ SameNumbers(Reals(heap[out.cur.nodes]), Reals(e.h[e.c.nodes]))
          /\ (out.cur.t = NoRef) = (e.c.t = NoRef)
          /\ out.cur.t # NoRef => heap[out.cur.t] = e.h[e.c.t]

\* D exceeds the whole days between the source's first and second node
PastSecond == cv.n >= 2 /\ 0 - RollDays > Days(cv.node_dates[2] - Anchor)

RollScalar ==
    IF cv.kind = "Curve"
    THEN roll_scalar(rate(heap, cv, Anchor, add_tenor_1d(Anchor)),
                     IF Upper(cv.convention) # "ACT360" THEN Q(1, 365)
                     ELSE Q(1, 360),
                     RollDays)
    ELSE [st |-> "ok", v |-> Q1]

\* what a roll backward returned is exactly what e is
SameResult(e) ==
    /\ out.st = e.st
    /\ SameOutcome(e)
    /\ out.st = "ok" => Reals(heap[out.cur.nodes]) = Reals(e.h[e.c.nodes])

SolvedFromNodes ==
    LET fresh == csolve_spline(heap, cv)
        inside == SelectSeq(heap[cv.nodes], LAMBDA nd : nd.k >= heap[cv.t][1])
    IN  /\ cv.spline.c[1] = "solved"
        /\ cv.spline.c = fresh.c.spline.c
        /\ heap[cv.spline.t] = fresh.h[fresh.c.spline.t]
        /\ cv.spline.n = fresh.c.spline.n
        /\ cv.spline.c[6] = [i \in 1..Len(inside) |-> <<cv.ad, inside[i].tag>>]

\* C21: on a curve with knots and no supplied coefficients, a returning
\* _set_ad_order call that changes the order leaves the coefficients solved
\* from the regenerated nodes; a call with the order in force changes neither
\* the nodes nor the spline
C21_OrderChangeSolvesAfresh ==
    [][(out'.op = "set_ad_order" /\ out'.st = "ok") =>
          /\ (out'.a[1] # cv.ad /\ cv.t # NoRef /\ ~cv.c_init) =>
                 (cv'.ad = out'.a[1] /\ SolvedFromNodes')
          /\ out'.a[1] = cv.ad => (cv' = cv /\ heap' = heap)]_vars

\* a curve with knots taken from order 1 to order 2: its coefficients are
\* solved from nodes that are Dual2 variables
C21_Witness ==
    /\ out.op = "set_ad_order"
    /\ out.st = "ok"
    /\ out.a = <<2>>
    /\ cv.ad = 2
    /\ cv.t # NoRef
    /\ ~cv.c_init
    /\ cv.spline.c[1] = "solved"
    /\ \E i \in 1..Len(cv.spline.c[6]) : cv.spline.c[6][i][1] = 2


\* the source's per-day forward factor over the segment that ends at node i
\* (1-based, i >= 2) with the spread added, raised to the days of the segment
Compounded(i, spread) ==
    LET n == Days(cv.node_dates[i] - cv.node_dates[i - 1])
        f == TPow(TDiv(heap[cv.nodes][i - 1].re, heap[cv.nodes][i].re), Q(1, n))
        d == IF Upper(cv.convention) = "ACT360" THEN Q(1, 360) ELSE Q(1, 365)
    IN  TPow(TAdd(f, TDiv(TMul(d, spread), Q(10000, 1))), Q(n, 1))

\* C22: the curve Curve.shift(spread) returns has the source's node dates,
\* the first value 1, and every later value the one before it divided by the
\* compounded forward factor of its segment; with spread 0 and a source whose
\* first value is 1 it has the source's values
C22_ShiftRecompounds ==
    (out.op = "shift" /\ out.st = "ok" /\ cv.kind = "Curve") =>
        /\ out.cur.node_dates = cv.node_dates
        /\ Keys(heap[out.cur.nodes]) = cv.node_dates
        /\ heap[out.cur.nodes][1].re = Q1
        /\ \A i \in 2..cv.n :
              heap[out.cur.nodes][i].re =
                  TDiv(heap[out.cur.nodes][i - 1].re, Compounded(i, out.a[1]))
        /\ (out.a[1] = Q0 /\ heap[cv.nodes][1].re = Q1) =>
              Reals(heap[out.cur.nodes]) = Reals(heap[cv.nodes])

\* a three-node Curve under ACT360 shifted by 25 basis points: the values
\* after the first are no longer the source's
C22_Witness ==
    /\ out.op = "shift"
    /\ out.st = "ok"
    /\ cv.kind = "Curve"
    /\ cv.n = 3
    /\ Upper(cv.convention) = "ACT360"
    /\ out.a[1] = Q(25, 1)
    /\ heap[cv.nodes][1].re = Q1
    /\ heap[out.cur.nodes][3].re # heap[cv.nodes][3].re


\* the bracket of a date at or after the first node of a curve of at least
\* two nodes: the first pair of neighbours whose right date is not before the
\* date, and the last pair for a date beyond the last node (1-based index of
\* the left node)
Bracket(date) ==
    IF \E i \in 1..(cv.n - 1) : date <= cv.node_dates[i + 1]
    THEN CHOOSE i \in 1..(cv.n - 1) :
             /\ date <= cv.node_dates[i + 1]
             /\ \A j \in 1..(i - 1) : date > cv.node_dates[j + 1]
    ELSE cv.n - 1

\* the straight line through the two nodes of the bracket, at the date
OnTheLine(date, i) ==
    TAdd(heap[cv.nodes][i].re,
         TMul(TSub(heap[cv.nodes][i + 1].re, heap[cv.nodes][i].re),
              Q(date - cv.node_dates[i], cv.node_dates[i + 1] - cv.node_dates[i])))

\* C23: under the linear rule a curve without spline returns, at a date at or
\* after its first node, the value at the date of the straight line through
\* the two nodes of the date's bracket, and beyond the last node that of the
\* line through the last two nodes
C23_LinearRule ==
    (out.op = "getitem" /\ cv.interpolation = "linear" /\ cv.spline.nil
        /\ cv.n >= 2 /\ out.a[1] >= Anchor) =>
        /\ out.st = "ok"
        /\ out.v = OnTheLine(out.a[1], Bracket(out.a[1]))
        /\ out.a[1] > cv.node_dates[cv.n] => out.v = OnTheLine(out.a[1], cv.n - 1)

\* a curve falling from 1 to 1/2 read beyond its last node: the line goes on
\* falling
C23_Witness ==
    /\ out.op = "getitem"
    /\ out.st = "ok"
    /\ cv.interpolation = "linear"
    /\ cv.spline.nil
    /\ cv.n = 2
    /\ Reals(heap[cv.nodes]) = <<Q1, Q(1, 2)>>
    /\ out.a[1] > cv.node_dates[2]
    /\ out.v # Q(1, 2)
    /\ TSign(TSub(Q(1, 2), out.v)) = 1


\* C24: every curve translate returns, and every curve a roll backward
\* returns, from a source of at least two nodes has at least two nodes itself,
\* and is evaluated at its first node date without index_left failing
C24_TranslatedHasTwoNodes ==
    (out.st = "ok" /\ cv.n >= 2
        /\ (out.op = "translate" \/ (out.op = "roll" /\ out.a[1] < Anchor))) =>
        /\ out.cur.n >= 2
        /\ Len(heap[out.cur.nodes]) >= 2
        /\ IsCallable(out.cur.interpolation)
              \/ getitem(heap, out.cur, out.cur.node_dates[1]).st # "ValueError"


C26_TagsUniqueAcrossCurves ==
    (out.op = "tags" /\ out.a[1] # out.a[2]) =>
        \A i \in 1..Len(heap["a.nodes"]), j \in 1..Len(heap["b.nodes"]) :
            heap["a.nodes"][i].tag # heap["b.nodes"][j].tag


\* the date read is the date of a node and a named rule answers it
AtNode ==
    /\ out.op = "getitem"
    /\ out.st = "ok"
    /\ ~IsCallable(cv.interpolation)
    /\ cv.spline.nil \/ out.a[1] <= heap[cv.t][1]
    /\ \E i \in 1..cv.n : cv.node_dates[i] = out.a[1]

C28_FlatForwardLatestNode ==
    (out.op = "getitem" /\ out.st = "ok" /\ cv.interpolation = "flat_forward"
        /\ cv.spline.nil /\ out.a[1] >= Anchor) =>
        \E i \in 1..cv.n :
            /\ cv.node_dates[i] <= out.a[1]
            /\ \A j \in (i + 1)..cv.n : cv.node_dates[j] > out.a[1]
            /\ out.v = heap[cv.nodes][i].re


\* the attributes of a curve agree with its node dict: node_dates its keys in
\* order, n their number, the dates strictly increasing, and every value in
\* the representation of the order ad
Coherent(c) ==
    /\ c.node_dates = Keys(heap[c.nodes])
    /\ c.n = Len(heap[c.nodes])
    /\ \A i \in 1..(c.n - 1) : c.node_dates[i] < c.node_dates[i + 1]
    /\ c.ad \in {0, 1, 2}
    /\ \A i \in 1..c.n : heap[c.nodes][i].ord = c.ad

\* C29: after construction and any sequence of _set_ad_order, shift,
\* translate and roll calls, the curve and the curve the last call returned
\* are coherent
C29_CurvesCoherent ==
    /\ Coherent(cv)
    /\ (out.op \in {"shift", "translate", "roll"} /\ out.st = "ok") =>
           Coherent(out.cur)

\* a curve constructed with float values, taken to order 2 and then rolled
\* forward: the curve returned has one node more, every value a Dual2
C29_Witness ==
    /\ out.op = "roll"
    /\ out.st = "ok"
    /\ cv.convention = "Act360"
    /\ cv.ad = 2
    /\ out.cur.ad = 2
    /\ out.cur.n = cv.n + 1
    /\ cv.n >= 2
    /\ \A i \in 1..out.cur.n : heap[out.cur.nodes][i].ord = 2


\* C30: == gives the same answer in both directions on a curve and any curve
\* made from it, curves with a callable interpolation included
C30_EqualitySymmetric ==
    (out.op \in {"copy", "shift", "translate", "roll"} /\ out.st = "ok") =>
        (CurveEq(heap, cv, out.cur) = CurveEq(heap, out.cur, cv))

====
